---- MODULE Spec2Model ----
(***************************************************************************)
(* A model of codefind's direct Bedrock gateway, src/codefind/bedrock_llm.py *)
(* : model-id resolution (get_best_model_id), BedrockLLM.completion and the  *)
(* streaming generator BedrockLLM._handle_streaming_response.                *)
(*                                                                         *)
(* Text is modelled as a sequence of tokens: "bedrock/" and "." are tokens *)
(* of their own, every other token is a word without '.' or '/'.  The      *)
(* string operations of the code (replace, startswith, split, lower, in)   *)
(* are defined on token sequences.                                         *)
(***************************************************************************)
EXTENDS Integers, Sequences, FiniteSets, TLC

\* ------------------------------------------------------------------ bounds
\* Longest listing returned by list_inference_profiles.
MaxProfiles == 2
\* Most events the transport's event source delivers in one stream.
MaxEvents == 3
MaxMessages == 2

\* ------------------------------------------------------------------ text
Range(s) == {s[i] : i \in 1..Len(s)}

\* str.replace('bedrock/', ''): every occurrence is removed, wherever it is.
RemoveAll(s, tok) == SelectSeq(s, LAMBDA t : t # tok)

\* str.lower() on the tokens the model uses.
LowerTok(t) ==
  IF t = "Anthropic" THEN "anthropic" ELSE t

Lower(s) == [i \in 1..Len(s) |-> LowerTok(s[i])]

\* pat in s (substring test), pat a non-empty token sequence.
Contains(s, pat) ==
  \E i \in 1..Len(s) :
    /\ i + Len(pat) - 1 <= Len(s)
    /\ SubSeq(s, i, i + Len(pat) - 1) = pat

\* The region prefixes the code lists (the same literal list at lines 310, 439, 516).
Regions == {"us", "eu", "ap", "ca", "sa", "af", "me"}

\* any(s.startswith(f"{region}.") for region in [...])
StartsWithRegion(s) == Len(s) >= 2 /\ s[1] \in Regions /\ s[2] = "."

\* '.' in profile_id
HasDot(s) == \E i \in 1..Len(s) : s[i] = "."

FirstDot(s) == CHOOSE i \in 1..Len(s) : s[i] = "." /\ \A j \in 1..(i - 1) : s[j] # "."

\* profile_id.split('.', 1)[1]: what follows the first '.'.
AfterFirstDot(s) == SubSeq(s, FirstDot(s) + 1, Len(s))

\* ------------------------------------------------------------ model family
\* The substring dispatch of completion (lines 165-172), also used by
\* _handle_streaming_response (325-332) and BedrockResponse.__init__ (45-52).
FamilyOf(id) ==
  IF Contains(Lower(id), <<"anthropic">>) THEN "anthropic"
  ELSE IF Contains(Lower(id), <<"amazon", ".", "titan">>) THEN "titan"
  ELSE IF Contains(Lower(id), <<"meta", ".", "llama">>) THEN "llama"
  ELSE "unsupported"

\* ------------------------------------------------------------ the resolver
\* One entry of inferenceProfileSummaries without an inferenceProfileId key.
NoId == <<"<no inferenceProfileId>">>

\* The listing call's outcomes: boto3.client('bedrock') fails, the call fails,
\* or the call returns a list of summaries.
ListingFailures == {"client_failed", "call_failed"}

\* profile_map = {} (line 485), and the {} returned at line 499.
EmptyMap == [b \in {} |-> b]

\* profile_map after the loop of lines 485-494 over ids[1..n].
RECURSIVE ProfileMapUpTo(_, _)
ProfileMapUpTo(ids, n) ==
  IF n = 0 THEN EmptyMap
  ELSE LET prev == ProfileMapUpTo(ids, n - 1)
           profile_id == ids[n]
       IN IF HasDot(profile_id)
          THEN LET base_model == AfterFirstDot(profile_id)
               IN [b \in (DOMAIN prev) \cup {base_model} |->
                     IF b = base_model THEN profile_id ELSE prev[b]]
          ELSE prev

\* (mutant) the region prefix is not removed from the key.
ProfilesKeyedByFullId(outcome) ==
  IF outcome.status # "ok" \/ \E i \in 1..Len(outcome.ids) : outcome.ids[i] = NoId
  THEN EmptyMap
  ELSE [p \in {outcome.ids[i] : i \in {j \in 1..Len(outcome.ids) : HasDot(outcome.ids[j])}}
          |-> p]

\* get_available_inference_profiles: any exception (a failed client, a failed
\* call, a summary without the id key) gives the empty map.
get_available_inference_profiles(outcome) ==
  IF outcome.status # "ok" \/ \E i \in 1..Len(outcome.ids) : outcome.ids[i] = NoId
  THEN EmptyMap
  ELSE ProfileMapUpTo(outcome.ids, Len(outcome.ids))

\* The try block of lines 479-495 ended without an exception.
FetchSucceeded(outcome) ==
  outcome.status = "ok" /\ \A i \in 1..Len(outcome.ids) : outcome.ids[i] # NoId

\* clean_model = requested_model.replace('bedrock/', '')
CleanModel(requested_model) == RemoveAll(requested_model, "bedrock/")

\* get_best_model_id once the listing has answered (lines 520-525).
BestFromProfiles(clean_model, profiles) ==
  IF clean_model \in DOMAIN profiles THEN profiles[clean_model] ELSE clean_model

\* ------------------------------------------------------------------ inputs
\* Requested models: an optional provider-gateway prefix, an optional region
\* prefix, and a base id.
GatewayPrefixes == {<<>>, <<"bedrock/">>}

RequestedRegions == {<<>>, <<"us", ".">>, <<"eu", ".">>}

BaseIds ==
  { <<"anthropic", ".", "claude">>,
    <<"Anthropic", ".", "claude">>,
    <<"anthropic", ".", "bedrock/", "claude">>,
    <<"amazon", ".", "titan">>,
    <<"meta", ".", "llama">>,
    <<"cohere", ".", "command">>,
    <<"amazon", ".", "bedrock/", "titan">> }

RequestedModels ==
  {g \o r \o b : g \in GatewayPrefixes, r \in RequestedRegions, b \in BaseIds}

\* What list_inference_profiles may return in one summary.
ProfileEntries ==
  { <<"us", ".", "anthropic", ".", "claude">>,
    <<"eu", ".", "anthropic", ".", "claude">>,
    <<"us", ".", "meta", ".", "llama">>,
    <<"apac", ".", "anthropic", ".", "claude">>,
    <<"anthropic", ".", "cohere", ".", "command">>,
    <<"applicationprofile">>,
    NoId }

RECURSIVE SeqsUpTo(_, _)
SeqsUpTo(S, n) ==
  IF n = 0 THEN {<<>>}
  ELSE LET shorter == SeqsUpTo(S, n - 1)
       IN shorter \cup {Append(q, x) : q \in {t \in shorter : Len(t) = n - 1}, x \in S}

NoListing == [status |-> "none", ids |-> <<>>]

ListingOutcomes ==
  {[status |-> f, ids |-> <<>>] : f \in ListingFailures}
    \cup {[status |-> "ok", ids |-> ids] : ids \in SeqsUpTo(ProfileEntries, MaxProfiles)}

\* os.environ.get('BEDROCK_DISABLE_STREAMING'): unset or one of these values.
EnvValues == {"<unset>", "false", "true", "TRUE", "1"}

\* ------------------------------------------------------- service outcomes
\* self.client (lines 134-142): boto3.client returns a client, raises
\* NoCredentialsError, or raises something else.
ClientOutcomes == {"ok", "NoCredentialsError", "UnknownServiceError"}

\* The error codes a botocore ClientError may carry.
ErrorCodes ==
  {"ThrottlingException", "ValidationException", "AccessDeniedException",
   "ModelTimeoutException"}

\* str(e) of a ClientError.
ErrorTexts == {<<"m1">>, <<"m2">>}

\* invoke_model / invoke_model_with_response_stream: a response, a ClientError,
\* or an exception that is no ClientError.
InvokeOutcomes ==
  {[kind |-> "ok", code |-> "", text |-> <<>>]}
    \cup {[kind |-> "ClientError", code |-> c, text |-> t] : c \in ErrorCodes, t \in ErrorTexts}
    \cup {[kind |-> k, code |-> "", text |-> <<>>] :
            k \in {"EndpointConnectionError", "NoCredentialsError"}}

NoSignal == [kind |-> "none", code |-> "", text |-> <<>>]

\* response['body'].read() and json.loads (line 214): a decoded body, or an
\* exception raised by the read or by the decoding.
ReadFailures == {"ReadTimeoutError", "JSONDecodeError"}

\* ------------------------------------------------------------ exceptions
NoException == [type |-> "none", msg |-> <<>>, at |-> "none"]

Exception(type, msg, at) == [type |-> type, msg |-> msg, at |-> at]

\* (mutant) a validation error is reported as the generic API error.
ClassifyValidationAsGeneric(e) ==
  IF e.code = "ThrottlingException"
  THEN [type |-> "BedrockRateLimitError", msg |-> <<"Rate limit exceeded: ">> \o e.text]
  ELSE [type |-> "BedrockLLMError", msg |-> <<"Bedrock API error: ">> \o e.text]

\* except ClientError as e (lines 217-224).
ClassifyClientError(e) ==
  IF e.code = "ThrottlingException"
  THEN [type |-> "BedrockRateLimitError", msg |-> <<"Rate limit exceeded: ">> \o e.text]
  ELSE IF e.code = "ValidationException"
  THEN [type |-> "BedrockModelError", msg |-> <<"Invalid request: ">> \o e.text]
  ELSE [type |-> "BedrockLLMError", msg |-> <<"Bedrock API error: ">> \o e.text]

\* What leaves the try block of lines 174-224 when the transport signals e.
RaisedFor(e, at) ==
  IF e.kind = "ClientError"
  THEN LET c == ClassifyClientError(e) IN Exception(c.type, c.msg, at)
  ELSE Exception(e.kind, <<>>, at)

\* os.environ.get(name, default)
EnvGet(value, default) == IF value = "<unset>" THEN default ELSE value

\* str.lower() on the values of EnvValues.
LowerEnv(value) == IF value = "TRUE" THEN "true" ELSE value

\* (mutant) the toggle is never honoured.
DisableStreamingIgnored(value) == FALSE

\* disable_streaming (line 176).
DisableStreaming(value) == LowerEnv(EnvGet(value, "false")) = "true"

\* (mutant) an unrecognised id is formatted in the Llama shape.
FormatDefaultsToLlama(id) ==
  IF FamilyOf(id) = "unsupported" THEN "llama" ELSE FamilyOf(id)

\* The request body's shape chosen at lines 165-172; "unsupported" raises.
FormatRequest(id) == FamilyOf(id)

\* ------------------------------------------------------------ streaming
\* A decoded event payload (chunk_data): a JSON object with the keys `keys`, a
\* JSON array, or bytes that json.loads rejects.  Texts are token sequences.
Payload(json, keys, type, delta_text, completion, text, outputText, generation) ==
  [json |-> json, keys |-> keys, type |-> type, delta_text |-> delta_text,
   completion |-> completion, text |-> text, outputText |-> outputText,
   generation |-> generation]

Object(keys, type, delta_text, completion, text, outputText, generation) ==
  Payload("object", keys, type, delta_text, completion, text, outputText, generation)

Payloads ==
  { Object({"type", "delta", "delta_text"}, "content_block_delta", <<"a">>, <<>>, <<>>, <<>>, <<>>),
    Object({"type", "delta"}, "content_block_delta", <<>>, <<>>, <<>>, <<>>, <<>>),
    Object({"type", "text"}, "content_block_start", <<>>, <<>>, <<"b">>, <<>>, <<>>),
    Object({"type", "delta"}, "message_delta", <<>>, <<>>, <<>>, <<>>, <<>>),
    Object({"completion"}, "", <<>>, <<"b">>, <<>>, <<>>, <<>>),
    Object({"delta", "delta_text"}, "", <<"a">>, <<>>, <<>>, <<>>, <<>>),
    Object({"text"}, "", <<>>, <<>>, <<"b">>, <<>>, <<>>),
    Object({"outputText"}, "", <<>>, <<>>, <<>>, <<"a">>, <<>>),
    Object({"generation"}, "", <<>>, <<>>, <<>>, <<>>, <<"b">>),
    Object({"generation", "outputText"}, "", <<>>, <<>>, <<>>, <<>>, <<>>),
    Object({}, "", <<>>, <<>>, <<>>, <<>>, <<>>),
    Payload("array", {}, "", <<>>, <<>>, <<>>, <<>>, <<>>),
    Payload("invalid", {}, "", <<>>, <<>>, <<>>, <<>>, <<>>) }

\* One event of the event source: with or without a 'chunk' key.
Events ==
  {[chunk |-> TRUE, data |-> d] : d \in Payloads}
    \cup {[chunk |-> FALSE, data |-> Object({}, "", <<>>, <<>>, <<>>, <<>>, <<>>)]}

\* The generator has taken no event.
NoEvent == [chunk |-> FALSE, data |-> Payload("none", {}, "", <<>>, <<>>, <<>>, <<>>, <<>>)]

\* dict.get(key, default) on a payload.
Get(d, key, default) == IF key \in d.keys THEN d[key] ELSE default

\* chunk_data.get('delta', {}).get('text', '')
DeltaText(d) == IF "delta" \in d.keys THEN Get(d, "delta_text", <<>>) ELSE <<>>

\* _parse_anthropic_streaming_chunk (lines 375-405); .get on a JSON array
\* raises AttributeError, which the except clause turns into "".
parse_anthropic_streaming_chunk(d) ==
  IF d.json # "object" THEN <<>>
  ELSE IF Get(d, "type", "") = "content_block_delta" THEN DeltaText(d)
  ELSE IF Get(d, "type", "") = "content_block_start" THEN <<>>
  ELSE IF Get(d, "type", "") = "message_delta" THEN <<>>
  ELSE IF "completion" \in d.keys THEN Get(d, "completion", <<>>)
  ELSE IF "delta" \in d.keys THEN DeltaText(d)
  ELSE IF "text" \in d.keys THEN Get(d, "text", <<>>)
  ELSE <<>>

\* _parse_titan_streaming_chunk (lines 407-413).
parse_titan_streaming_chunk(d) ==
  IF d.json # "object" THEN <<>> ELSE Get(d, "outputText", <<>>)

\* _parse_llama_streaming_chunk (lines 415-421).
parse_llama_streaming_chunk(d) ==
  IF d.json # "object" THEN <<>> ELSE Get(d, "generation", <<>>)

\* chunk_text of lines 324-332.
ChunkText(id, d) ==
  IF FamilyOf(id) = "anthropic" THEN parse_anthropic_streaming_chunk(d)
  ELSE IF FamilyOf(id) = "titan" THEN parse_titan_streaming_chunk(d)
  ELSE IF FamilyOf(id) = "llama" THEN parse_llama_streaming_chunk(d)
  ELSE <<>>

StreamingChunk(content, finish_reason) ==
  [content |-> content, finish_reason |-> finish_reason]

\* (mutant) the text of an event is yielded twice over.
ContentChunkDoubled(chunk_text) == StreamingChunk(chunk_text \o chunk_text, "None")

\* The chunk of lines 337-345.
ContentChunk(chunk_text) == StreamingChunk(chunk_text, "None")

\* (mutant) a chunk is yielded for every event, with or without text.
ChunksAfterEventAlways(cs, chunk_text) == Append(cs, ContentChunk(chunk_text))

\* Lines 334-345: `if chunk_text:` guards the yield.
ChunksAfterEvent(cs, chunk_text) ==
  IF chunk_text # <<>> THEN Append(cs, ContentChunk(chunk_text)) ELSE cs

\* (mutant) the error chunk carries no finish reason.
ErrorChunkUnmarked(description) ==
  StreamingChunk(<<"Streaming error: ">> \o description, "None")

\* The chunk of lines 351-359; description is str(e).
ErrorChunk(description) == StreamingChunk(<<"Streaming error: ">> \o description, "error")

\* (mutant) the final chunk is an ordinary content chunk.
FinalChunkUnmarked == StreamingChunk(<<>>, "None")

\* The chunk of lines 364-372.
FinalChunk == StreamingChunk(<<>>, "stop")

\* str(e) of what iterating the event source may raise.
SourceFailures == {<<"EventStreamError">>, <<"ConnectionClosedError">>}

\* str(e) of json.loads rejecting an event's bytes.
DecodeFailure == <<"JSONDecodeError">>

\* ------------------------------------------------------- request formats
\* A message of the conversation: msg['role'] and msg['content'].
Roles == {"system", "user", "assistant", "tool"}
Contents == {<<>>, <<"x">>, <<"y">>}
Messages == [role : Roles, content : Contents]
MessageLists == SeqsUpTo(Messages, MaxMessages)
Families == {"anthropic", "titan", "llama"}

\* system_message: None (line 229) or the content last assigned at line 235.
NoSystemMessage == [set |-> FALSE, text |-> <<>>]

\* system_message and anthropic_messages after the loop of lines 233-240 over
\* messages[1..n].
RECURSIVE AnthropicLoop(_, _)
AnthropicLoop(msgs, n) ==
  IF n = 0 THEN [system_message |-> NoSystemMessage, anthropic_messages |-> <<>>]
  ELSE LET prev == AnthropicLoop(msgs, n - 1)
           msg == msgs[n]
       IN IF msg.role = "system"
          THEN [prev EXCEPT !.system_message = [set |-> TRUE, text |-> msg.content]]
          ELSE [prev EXCEPT !.anthropic_messages =
                  Append(@, [role |-> msg.role, content |-> msg.content])]

\* (mutant) the system field is always written.
SystemAlwaysWritten(system_message) == TRUE

\* `if system_message:` (line 249).
SystemWritten(system_message) == system_message.set /\ system_message.text # <<>>

\* _format_anthropic_request (lines 226-252).
format_anthropic_request(msgs, temperature, max_tokens) ==
  LET after == AnthropicLoop(msgs, Len(msgs))
  IN [kind |-> "anthropic",
      keys |-> {"messages", "max_tokens", "temperature", "anthropic_version"}
                 \cup (IF SystemWritten(after.system_message) THEN {"system"} ELSE {}),
      messages |-> after.anthropic_messages,
      max_tokens |-> max_tokens,
      temperature |-> temperature,
      anthropic_version |-> "bedrock-2023-05-31",
      system |-> after.system_message.text]

\* prompt after the loop of lines 259-265 over messages[1..n].
RECURSIVE TitanLoop(_, _)
TitanLoop(msgs, n) ==
  IF n = 0 THEN <<>>
  ELSE LET prompt == TitanLoop(msgs, n - 1)
           msg == msgs[n]
       IN IF msg.role = "system" THEN prompt \o <<"System: ">> \o msg.content \o <<"\n\n">>
          ELSE IF msg.role = "user" THEN prompt \o <<"Human: ">> \o msg.content \o <<"\n\n">>
          ELSE IF msg.role = "assistant"
          THEN prompt \o <<"Assistant: ">> \o msg.content \o <<"\n\n">>
          ELSE prompt

\* _format_titan_request (lines 254-277), kwargs empty.
format_titan_request(msgs, temperature, max_tokens) ==
  [kind |-> "titan",
   keys |-> {"inputText", "textGenerationConfig"},
   inputText |-> TitanLoop(msgs, Len(msgs)) \o <<"Assistant: ">>,
   maxTokenCount |-> max_tokens,
   temperature |-> temperature,
   topP |-> "0.9",
   stopSequences |-> <<>>]

\* prompt after the loop of lines 284-290 over messages[1..n].
RECURSIVE LlamaLoop(_, _)
LlamaLoop(msgs, n) ==
  IF n = 0 THEN <<>>
  ELSE LET prompt == LlamaLoop(msgs, n - 1)
           msg == msgs[n]
       IN IF msg.role = "system"
          THEN prompt \o <<"<|begin_of_text|>", "<|start_header_id|>", "system",
                           "<|end_header_id|>", "\n">> \o msg.content \o <<"<|eot_id|>">>
          ELSE IF msg.role = "user"
          THEN prompt \o <<"<|start_header_id|>", "user", "<|end_header_id|>", "\n">>
                 \o msg.content \o <<"<|eot_id|>">>
          ELSE IF msg.role = "assistant"
          THEN prompt \o <<"<|start_header_id|>", "assistant", "<|end_header_id|>", "\n">>
                 \o msg.content \o <<"<|eot_id|>">>
          ELSE prompt

\* _format_llama_request (lines 279-299), kwargs empty.
format_llama_request(msgs, temperature, max_tokens) ==
  [kind |-> "llama",
   keys |-> {"prompt", "max_gen_len", "temperature", "top_p"},
   prompt |-> LlamaLoop(msgs, Len(msgs))
                \o <<"<|start_header_id|>", "assistant", "<|end_header_id|>", "\n">>,
   max_gen_len |-> max_tokens,
   temperature |-> temperature,
   top_p |-> "0.9"]

\* ------------------------------------------------------ validate_environment
\* os.environ.get(name): unset, empty, or a value.
AwsValues == {"<unset>", "", "v"}

AwsEnvironments ==
  [AWS_ACCESS_KEY_ID : AwsValues, AWS_SECRET_ACCESS_KEY : AwsValues, AWS_PROFILE : AwsValues]

\* The truth value of os.environ.get(name).
Truthy(value) == value \notin {"<unset>", ""}

\* boto3.Session().get_credentials(): credentials, None, or an exception.
SessionOutcomes == {"credentials", "None", "raises"}

\* (mutant) every model counts as a Bedrock model.
IsBedrockModelAlways(model_name) == TRUE

\* is_bedrock_model (lines 435-439).
is_bedrock_model(model_name) ==
  \/ Len(model_name) >= 1 /\ model_name[1] = "bedrock/"
  \/ StartsWithRegion(model_name)

\* The dict validate_environment returns (lines 442-445, 469-472).
Validation(keys_in_environment, missing_keys) ==
  [keys_in_environment |-> keys_in_environment # <<>>, missing_keys |-> missing_keys]

NotValidated == [keys_in_environment |-> FALSE, missing_keys |-> <<"<none>">>]

\* ------------------------------------------------- resolvers side by side
Resolvers == {1, 2}

\* The ids and listings the resolvers are run on.
RaceModels ==
  {g \o b : g \in GatewayPrefixes,
            b \in {<<"anthropic", ".", "claude">>, <<"cohere", ".", "command">>}}

RaceEntries ==
  {<<"us", ".", "anthropic", ".", "claude">>, <<"eu", ".", "anthropic", ".", "claude">>, NoId}

RaceListings ==
  {[status |-> f, ids |-> <<>>] : f \in ListingFailures}
    \cup {[status |-> "ok", ids |-> ids] : ids \in SeqsUpTo(RaceEntries, MaxProfiles)}

\* The locals of one get_best_model_id call: where it is, what the listing
\* answered, the entries the loop has handled, profile_map, what it returned.
Resolver(at, answer, n, profile_map, result) ==
  [at |-> at, answer |-> answer, n |-> n, profile_map |-> profile_map, result |-> result]

\* (mutant) the map is shared: a resolver looks the id up in the other's map.
ProfilesOfOther(own, other) == other

\* Line 520: profiles is the dict this call's get_available_inference_profiles
\* built and returned; no other call holds a reference to it.
ProfilesOf(own, other) == own

\* ------------------------------------------------------------- responses
\* A decoded response body (response_body): a JSON object with the keys
\* `keys`.  content and results hold the shape of the value: "[]" an empty
\* list, "[{text}]" and "[{outputText}]" a list whose first element is a
\* record with that field, "[{}]" one whose first element is a record without
\* it, "[str]" one whose first element is a string, "str" a string.  A JSON
\* null is Python's None.  The token counts belong to `usage` for Anthropic.
Body(keys, content, content_text, stop_reason, input_tokens, output_tokens, results, outputText, generation, prompt_token_count, generation_token_count) ==
  [json |-> "object", keys |-> keys, content |-> content, content_text |-> content_text,
   stop_reason |-> stop_reason, input_tokens |-> input_tokens,
   output_tokens |-> output_tokens, results |-> results, outputText |-> outputText,
   generation |-> generation, prompt_token_count |-> prompt_token_count,
   generation_token_count |-> generation_token_count]

\* No body has been decoded.
NoBody == [Body({}, "", <<>>, "", 0, 0, "", <<>>, <<>>, 0, 0) EXCEPT !.json = "none"]

StopReasons ==
  {[keys |-> {}, v |-> ""], [keys |-> {"stop_reason"}, v |-> "end_turn"],
   [keys |-> {"stop_reason"}, v |-> ""], [keys |-> {"stop_reason"}, v |-> "None"]}

ContentShapes ==
  {[keys |-> {}, shape |-> "", text |-> <<>>],
   [keys |-> {"content"}, shape |-> "[]", text |-> <<>>],
   [keys |-> {"content"}, shape |-> "[{text}]", text |-> <<"hi">>],
   [keys |-> {"content"}, shape |-> "[{}]", text |-> <<>>],
   [keys |-> {"content"}, shape |-> "[str]", text |-> <<"hi">>],
   [keys |-> {"content"}, shape |-> "str", text |-> <<"hi">>]}

Usages ==
  {[keys |-> {}, i |-> 0, o |-> 0],
   [keys |-> {"usage", "input_tokens"}, i |-> 3, o |-> 0],
   [keys |-> {"usage", "input_tokens", "output_tokens"}, i |-> 3, o |-> 2]}

AnthropicBodies ==
  {Body(c.keys \cup r.keys \cup u.keys, c.shape, c.text, r.v, u.i, u.o, "", <<>>, <<>>, 0, 0) :
     c \in ContentShapes, r \in StopReasons, u \in Usages}

ResultShapes ==
  {[keys |-> {}, shape |-> "", text |-> <<>>],
   [keys |-> {"results"}, shape |-> "[]", text |-> <<>>],
   [keys |-> {"results"}, shape |-> "[{outputText}]", text |-> <<"out">>],
   [keys |-> {"results"}, shape |-> "[{}]", text |-> <<>>],
   [keys |-> {"results"}, shape |-> "[str]", text |-> <<"out">>]}

\* Titan bodies, bare or carrying the other families' fields as well.
TitanBodies ==
  {Body(r.keys, "", <<>>, "", 0, 0, r.shape, r.text, <<>>, 0, 0) : r \in ResultShapes}
    \cup {Body(r.keys \cup {"stop_reason", "usage", "input_tokens", "output_tokens",
                            "prompt_token_count", "generation_token_count"},
               "", <<>>, "length", 3, 2, r.shape, r.text, <<>>, 5, 7) : r \in ResultShapes}

Generations ==
  {[keys |-> {}, text |-> <<>>], [keys |-> {"generation"}, text |-> <<"gen">>]}

Counts ==
  {[keys |-> {}, p |-> 0, g |-> 0],
   [keys |-> {"generation_token_count"}, p |-> 0, g |-> 7],
   [keys |-> {"prompt_token_count", "generation_token_count"}, p |-> 5, g |-> 7]}

LlamaBodies ==
  {Body(g.keys \cup r.keys \cup c.keys, "", <<>>, r.v, 0, 0, "", <<>>, g.text, c.p, c.g) :
     g \in Generations, r \in StopReasons, c \in Counts}

Bodies == AnthropicBodies \cup TitanBodies \cup LlamaBodies

\* What a parser leaves in the BedrockResponse, or the exception it raises.
Parsed(text, finish_reason, prompt_tokens, completion_tokens, total_tokens) ==
  [raises |-> "none", text |-> text, finish_reason |-> finish_reason,
   prompt_tokens |-> prompt_tokens, completion_tokens |-> completion_tokens,
   total_tokens |-> total_tokens]

ParseRaises(type) ==
  [raises |-> type, text |-> <<>>, finish_reason |-> "None", prompt_tokens |-> 0,
   completion_tokens |-> 0, total_tokens |-> 0]

\* usage_data.get(key, 0), usage_data = data.get('usage', {}) (lines 73-77).
UsageGet(data, key) == IF "usage" \in data.keys THEN Get(data, key, 0) ELSE 0

\* (mutant) the total counts the prompt tokens only.
AnthropicTotalPromptOnly(data) == UsageGet(data, "input_tokens")

\* total_tokens of line 77.
AnthropicTotal(data) == UsageGet(data, "input_tokens") + UsageGet(data, "output_tokens")

\* (mutant) the text of a list-shaped content is its stringified form.
AnthropicFirstTextStringified(data) == <<"[{...}]">>

\* content[0].get('text', '') of line 58, the first element being a record.
AnthropicFirstText(data) == IF data.content = "[{text}]" THEN data.content_text ELSE <<>>

\* _parse_anthropic_response (lines 54-78).  An absent content is [], and
\* str([]) is "[]"; a first element that is a string has no .get.
parse_anthropic_response(data) ==
  LET content == Get(data, "content", "[]")
      finish_reason == Get(data, "stop_reason", "stop")
      prompt_tokens == UsageGet(data, "input_tokens")
      completion_tokens == UsageGet(data, "output_tokens")
  IN IF content = "[str]" THEN ParseRaises("AttributeError")
     ELSE IF content \in {"[{text}]", "[{}]"}
     THEN Parsed(AnthropicFirstText(data), finish_reason, prompt_tokens,
                 completion_tokens, AnthropicTotal(data))
     ELSE IF content = "[]"
     THEN Parsed(<<"[]">>, finish_reason, prompt_tokens, completion_tokens,
                 AnthropicTotal(data))
     ELSE Parsed(data.content_text, finish_reason, prompt_tokens, completion_tokens,
                 AnthropicTotal(data))

\* (mutant) Titan's usage is read from the Llama token counts.
TitanUsageFromCounts(data) ==
  [prompt_tokens |-> Get(data, "prompt_token_count", 0),
   completion_tokens |-> Get(data, "generation_token_count", 0),
   total_tokens |-> Get(data, "prompt_token_count", 0)
                      + Get(data, "generation_token_count", 0)]

\* The usage of lines 98-103.
TitanUsage(data) == [prompt_tokens |-> 0, completion_tokens |-> 0, total_tokens |-> 0]

\* _parse_titan_response (lines 80-103).
parse_titan_response(data) ==
  LET results == Get(data, "results", "[]")
      usage == TitanUsage(data)
  IN IF results = "[str]" THEN ParseRaises("AttributeError")
     ELSE Parsed(IF results = "[{outputText}]" THEN data.outputText ELSE <<>>,
                 "stop", usage.prompt_tokens, usage.completion_tokens, usage.total_tokens)

\* _parse_llama_response (lines 105-124).
parse_llama_response(data) ==
  Parsed(Get(data, "generation", <<>>), Get(data, "stop_reason", "stop"),
         Get(data, "prompt_token_count", 0), Get(data, "generation_token_count", 0),
         Get(data, "prompt_token_count", 0) + Get(data, "generation_token_count", 0))

NoResponse ==
  [model |-> <<>>, content |-> <<>>, finish_reason |-> "None", prompt_tokens |-> 0,
   completion_tokens |-> 0, total_tokens |-> 0]

\* BedrockResponse.__init__ (lines 39-52): the parser is chosen by the family
\* of the model argument; an unknown family raises BedrockModelError.
BedrockResponse(data, m) ==
  IF FamilyOf(m) = "anthropic" THEN parse_anthropic_response(data)
  ELSE IF FamilyOf(m) = "titan" THEN parse_titan_response(data)
  ELSE IF FamilyOf(m) = "llama" THEN parse_llama_response(data)
  ELSE ParseRaises("BedrockModelError")

\* The object completion() returns at line 215.
ResponseObject(parsed, m) ==
  [model |-> m, content |-> parsed.text, finish_reason |-> parsed.finish_reason,
   prompt_tokens |-> parsed.prompt_tokens, completion_tokens |-> parsed.completion_tokens,
   total_tokens |-> parsed.total_tokens]

\* (mutant) a throttled invoke is tried once more.
CallsAfterInvokeRetrying(c, streaming, answer) ==
  LET name == IF streaming THEN "invoke_model_with_response_stream" ELSE "invoke_model"
  IN IF answer.kind = "ClientError" /\ answer.code = "ThrottlingException"
     THEN Append(Append(c, name), name)
     ELSE Append(c, name)

\* Lines 178-212: one invoke, of the kind the mode selects, whatever it answers.
CallsAfterInvoke(c, streaming, answer) ==
  Append(c, IF streaming THEN "invoke_model_with_response_stream" ELSE "invoke_model")

\* ------------------------------------------------------------------- state
VARIABLES
  pc,             \* position of the current completion() call
  model,          \* completion's argument model
  stream,         \* completion's argument stream
  environ,        \* the process environment's BEDROCK_DISABLE_STREAMING
  listing,        \* the listing call's answer while get_best_model_id runs
  model_id,       \* completion's local model_id
  body,           \* the shape of the formatted request body
  client,         \* BedrockLLM._client
  signal,         \* what the transport last answered to this request
  calls,          \* the calls made on the service for this request, in order
  outcome,        \* how completion() ended: a response, a generator, an exception
  raised,         \* the exception completion() raised
  returned,       \* the BedrockResponse completion() returned
  response_body,  \* completion's local response_body
  gen,            \* the generator of _handle_streaming_response
  source,         \* the transport's event source
  consumed,       \* the number of events taken from the source
  chunks,         \* the chunks the generator has yielded, in order
  event,          \* the generator's loop variable event
  fetched,        \* whether a listing call has succeeded in this process
  fpc,            \* position of a request formatter called on its own
  family,         \* the formatter called
  messages,       \* the formatter's argument messages
  built,          \* the request body the formatter returned
  resolvers,      \* the get_best_model_id calls running side by side, each with its locals
  race_model,     \* the requested_model those calls were given
  vpc,            \* position of a validate_environment call
  vmodel,         \* validate_environment's argument model
  aws,            \* the process environment's AWS_* variables
  validated       \* what validate_environment returned

request == <<model, stream, model_id, body>>
streaming == <<gen, source, consumed, chunks, event>>
formatting == <<fpc, family, messages, built>>
racing == <<resolvers, race_model>>
validating == <<vpc, vmodel, aws, validated>>

vars ==
  <<pc, model, stream, environ, listing, model_id, body, client, signal, calls,
    outcome, raised, returned, response_body, gen, source, consumed, chunks, event,
    fetched, fpc, family, messages, built, resolvers, race_model, vpc, vmodel, aws,
    validated>>

NoModel == <<>>

\* No formatter has returned.
NoRequest == [kind |-> "none"]

\* No get_best_model_id calls run side by side.
NoRace ==
  /\ race_model = NoModel
  /\ resolvers = [r \in Resolvers |-> Resolver("none", NoListing, 0, EmptyMap, NoModel)]

\* validate_environment has not been called.
NoValidation ==
  /\ vpc = "none"
  /\ vmodel = NoModel
  /\ aws = [AWS_ACCESS_KEY_ID |-> "<unset>", AWS_SECRET_ACCESS_KEY |-> "<unset>",
            AWS_PROFILE |-> "<unset>"]
  /\ validated = NotValidated

Init ==
  /\ pc = "Idle"
  /\ model = NoModel
  /\ stream = FALSE
  /\ environ \in EnvValues
  /\ listing = NoListing
  /\ model_id = NoModel
  /\ body = "none"
  /\ client = "None"
  /\ signal = NoSignal
  /\ calls = <<>>
  /\ outcome = "none"
  /\ raised = NoException
  /\ returned = NoResponse
  /\ response_body = NoBody
  /\ gen = "none"
  /\ source = "none"
  /\ consumed = 0
  /\ chunks = <<>>
  /\ event = NoEvent
  /\ fetched = FALSE
  /\ fpc = "none"
  /\ family = "none"
  /\ messages = <<>>
  /\ built = NoRequest
  /\ NoRace
  /\ NoValidation

\* completion(model, messages, stream) is called.
Call ==
  /\ pc = "Idle"
  /\ \E m \in RequestedModels, s \in BOOLEAN :
       /\ model' = m
       /\ stream' = s
  /\ pc' = "Resolving"
  /\ UNCHANGED <<environ, listing, model_id, body, client, signal, calls, outcome,
                 raised, returned, response_body, streaming, fetched, formatting, racing, validating>>

\* model_id = get_best_model_id(model), lines 162 and 502-525.
Resolve ==
  /\ pc = "Resolving"
  /\ LET clean_model == CleanModel(model)
     IN IF StartsWithRegion(clean_model)
        THEN /\ model_id' = clean_model
             /\ UNCHANGED <<listing, calls, fetched>>
        ELSE \E answer \in ListingOutcomes :
               /\ listing' = answer
               /\ fetched' = (fetched \/ FetchSucceeded(answer))
               /\ calls' = Append(calls, "list_inference_profiles")
               /\ model_id' =
                    BestFromProfiles(clean_model, get_available_inference_profiles(answer))
  /\ pc' = "Formatting"
  /\ UNCHANGED <<model, stream, environ, body, client, signal, outcome, raised,
                 returned, response_body, streaming, formatting, racing, validating>>

\* Lines 164-172: the request is formatted for the family of model_id, or
\* BedrockModelError is raised.  get_best_model_id's locals are gone.
Format ==
  /\ pc = "Formatting"
  /\ listing' = NoListing
  /\ IF FormatRequest(model_id) = "unsupported"
     THEN /\ pc' = "Failed"
          /\ outcome' = "raise"
          /\ raised' = Exception("BedrockModelError", <<"Unsupported model: ">> \o model_id,
                                 "Formatting")
          /\ UNCHANGED body
     ELSE /\ pc' = "Invoking"
          /\ body' = FormatRequest(model_id)
          /\ UNCHANGED <<outcome, raised>>
  /\ UNCHANGED <<model, stream, environ, model_id, client, signal, calls, returned,
                 response_body, streaming, fetched, formatting, racing, validating>>

\* self.client (lines 134-142), evaluated inside the try block.
GetClient ==
  /\ pc = "Invoking"
  /\ IF client # "None"
     THEN /\ pc' = "Invoking.call"
          /\ UNCHANGED <<client, signal, calls, outcome, raised>>
     ELSE \E c \in ClientOutcomes :
            /\ calls' = Append(calls, "boto3.client")
            /\ IF c = "ok"
               THEN /\ client' = "client"
                    /\ pc' = "Invoking.call"
                    /\ UNCHANGED <<signal, outcome, raised>>
               ELSE /\ pc' = "Failed"
                    /\ outcome' = "raise"
                    /\ signal' = [kind |-> c, code |-> "", text |-> <<>>]
                    /\ raised' =
                         IF c = "NoCredentialsError"
                         THEN Exception("BedrockAuthError",
                                        <<"AWS credentials not found. Please configure AWS credentials.">>,
                                        "Invoking.client")
                         ELSE Exception(c, <<>>, "Invoking.client")
                    /\ UNCHANGED client
  /\ UNCHANGED <<request, environ, listing, returned, response_body, streaming, fetched,
                 formatting, racing, validating>>

\* Lines 176-212: the streaming or the synchronous invoke, and what it answers.
\* A streaming answer is wrapped in the generator, which has not started.
InvokeModel ==
  /\ pc = "Invoking.call"
  /\ \E answer \in InvokeOutcomes :
       LET disable_streaming == DisableStreaming(environ)
           streams == stream /\ ~disable_streaming
       IN /\ signal' = answer
          /\ calls' = CallsAfterInvoke(calls, streams, answer)
          /\ IF answer.kind # "ok"
             THEN /\ pc' = "Failed"
                  /\ outcome' = "raise"
                  /\ raised' = RaisedFor(answer, "Invoking.call")
                  /\ UNCHANGED streaming
             ELSE IF streams
             THEN /\ pc' = "Streaming"
                  /\ outcome' = "generator"
                  /\ gen' = "active"
                  /\ source' = "open"
                  /\ UNCHANGED <<raised, consumed, chunks, event>>
             ELSE /\ pc' = "Invoking.read"
                  /\ UNCHANGED <<outcome, raised, streaming>>
  /\ UNCHANGED <<request, environ, listing, client, returned, response_body, fetched,
                 formatting, racing, validating>>

\* Lines 214-215: the body is read and decoded, and BedrockResponse is built
\* from it and from the model argument.
ReadBody ==
  /\ pc = "Invoking.read"
  /\ \/ \E f \in ReadFailures :
          /\ pc' = "Failed"
          /\ outcome' = "raise"
          /\ raised' = Exception(f, <<>>, "Invoking.read")
          /\ UNCHANGED <<returned, response_body>>
     \/ \E data \in Bodies :
          LET parsed == BedrockResponse(data, model)
          IN /\ response_body' = data
             /\ IF parsed.raises # "none"
                THEN /\ pc' = "Failed"
                     /\ outcome' = "raise"
                     /\ raised' =
                          Exception(parsed.raises,
                                    IF parsed.raises = "BedrockModelError"
                                    THEN <<"Unsupported model type: ">> \o model
                                    ELSE <<>>,
                                    "Invoking.read")
                     /\ UNCHANGED returned
                ELSE /\ pc' = "Completed"
                     /\ outcome' = "response"
                     /\ returned' = ResponseObject(parsed, model)
                     /\ UNCHANGED raised
  /\ UNCHANGED <<request, environ, listing, client, signal, calls, streaming, fetched,
                 formatting, racing, validating>>

\* One iteration of the loop of lines 320-347: the source delivers an event.
StreamEvent ==
  /\ pc = "Streaming"
  /\ gen = "active"
  /\ consumed < MaxEvents
  /\ \E e \in Events :
       /\ consumed' = consumed + 1
       /\ event' = e
       /\ IF ~e.chunk
          THEN UNCHANGED <<pc, gen, signal, chunks>>
          ELSE IF e.data.json = "invalid"
          THEN /\ signal' = [kind |-> "JSONDecodeError", code |-> "", text |-> DecodeFailure]
               /\ chunks' = Append(chunks, ErrorChunk(DecodeFailure))
               /\ gen' = "finished"
               /\ pc' = "StreamCompleted"
          ELSE LET chunk_text == ChunkText(model_id, e.data)
               IN /\ chunks' = ChunksAfterEvent(chunks, chunk_text)
                  /\ UNCHANGED <<pc, gen, signal>>
  /\ UNCHANGED <<request, environ, listing, client, calls, outcome, raised, returned,
                 response_body, source, fetched, formatting, racing, validating>>

\* Iterating the event source raises: lines 349-361.
StreamSourceFail ==
  /\ pc = "Streaming"
  /\ gen = "active"
  /\ \E f \in SourceFailures :
       /\ signal' = [kind |-> "EventStreamError", code |-> "", text |-> f]
       /\ chunks' = Append(chunks, ErrorChunk(f))
  /\ source' = "failed"
  /\ gen' = "finished"
  /\ pc' = "StreamCompleted"
  /\ UNCHANGED <<request, environ, listing, client, calls, outcome, raised, returned,
                 response_body, consumed, event, fetched, formatting, racing, validating>>

\* The event source is exhausted: lines 363-373.
StreamEnd ==
  /\ pc = "Streaming"
  /\ gen = "active"
  /\ source' = "exhausted"
  /\ chunks' = Append(chunks, FinalChunk)
  /\ gen' = "finished"
  /\ pc' = "StreamCompleted"
  /\ UNCHANGED <<request, environ, listing, client, signal, calls, outcome, raised,
                 returned, response_body, consumed, event, fetched, formatting, racing, validating>>

\* The caller is done with the request (or stops consuming the generator);
\* only the process-wide state outlives it.
Return ==
  /\ pc \in {"Completed", "Failed", "StreamCompleted", "Streaming"}
  /\ pc' = "Idle"
  /\ model' = NoModel
  /\ stream' = FALSE
  /\ listing' = NoListing
  /\ model_id' = NoModel
  /\ body' = "none"
  /\ signal' = NoSignal
  /\ calls' = <<>>
  /\ outcome' = "none"
  /\ raised' = NoException
  /\ returned' = NoResponse
  /\ response_body' = NoBody
  /\ gen' = "none"
  /\ source' = "none"
  /\ consumed' = 0
  /\ chunks' = <<>>
  /\ event' = NoEvent
  /\ UNCHANGED <<environ, client, fetched, formatting, racing, validating>>

Next ==
  \/ Call
  \/ Resolve
  \/ Format
  \/ GetClient
  \/ InvokeModel
  \/ ReadBody
  \/ StreamEvent
  \/ StreamSourceFail
  \/ StreamEnd
  \/ Return

Spec == Init /\ [][Next]_vars

\* ----------------------------------------------- the formatters on their own
\* No completion() call is under way.
Quiet ==
  /\ pc = "Idle"
  /\ model = NoModel
  /\ stream = FALSE
  /\ environ = "<unset>"
  /\ listing = NoListing
  /\ model_id = NoModel
  /\ body = "none"
  /\ client = "None"
  /\ signal = NoSignal
  /\ calls = <<>>
  /\ outcome = "none"
  /\ raised = NoException
  /\ returned = NoResponse
  /\ response_body = NoBody
  /\ gen = "none"
  /\ source = "none"
  /\ consumed = 0
  /\ chunks = <<>>
  /\ event = NoEvent
  /\ fetched = FALSE

main ==
  <<pc, model, stream, environ, listing, model_id, body, client, signal, calls,
    outcome, raised, returned, response_body, gen, source, consumed, chunks, event,
    fetched>>

\* A formatter is about to be called with a message list.
InitFormat ==
  /\ Quiet
  /\ NoRace
  /\ NoValidation
  /\ fpc = "called"
  /\ family \in Families
  /\ messages \in MessageLists
  /\ built = NoRequest

\* The formatters are called as completion calls them (lines 166-170), with
\* its default temperature and max_tokens (lines 145-146) and no kwargs.
FormatAnthropic ==
  /\ fpc = "called"
  /\ family = "anthropic"
  /\ built' = format_anthropic_request(messages, "0.0", 4096)
  /\ fpc' = "returned"
  /\ UNCHANGED <<main, family, messages, racing, validating>>

FormatTitan ==
  /\ fpc = "called"
  /\ family = "titan"
  /\ built' = format_titan_request(messages, "0.0", 4096)
  /\ fpc' = "returned"
  /\ UNCHANGED <<main, family, messages, racing, validating>>

FormatLlama ==
  /\ fpc = "called"
  /\ family = "llama"
  /\ built' = format_llama_request(messages, "0.0", 4096)
  /\ fpc' = "returned"
  /\ UNCHANGED <<main, family, messages, racing, validating>>

NextFormat ==
  \/ FormatAnthropic
  \/ FormatTitan
  \/ FormatLlama

SpecFormat == InitFormat /\ [][NextFormat]_vars

\* ------------------------------------------------ validate_environment alone
NoFormat ==
  /\ fpc = "none"
  /\ family = "none"
  /\ messages = <<>>
  /\ built = NoRequest

\* validate_environment(model) is called in some credential environment.
InitValidate ==
  /\ Quiet
  /\ NoFormat
  /\ NoRace
  /\ vpc = "called"
  /\ vmodel \in RequestedModels
  /\ aws \in AwsEnvironments
  /\ validated = NotValidated

\* Lines 441-445: a model that is no Bedrock model is answered at once.
ValidateModel ==
  /\ vpc = "called"
  /\ IF is_bedrock_model(vmodel)
     THEN /\ vpc' = "credentials"
          /\ UNCHANGED validated
     ELSE /\ vpc' = "returned"
          /\ validated' = [keys_in_environment |-> FALSE,
                           missing_keys |-> <<"BEDROCK_MODEL_REQUIRED">>]
  /\ UNCHANGED <<main, formatting, racing, vmodel, aws>>

\* Lines 452-453 and 465-468: the credentials the environment names.
ValidateEnvironment ==
  /\ vpc = "credentials"
  /\ IF Truthy(aws.AWS_ACCESS_KEY_ID) /\ Truthy(aws.AWS_SECRET_ACCESS_KEY)
     THEN /\ vpc' = "returned"
          /\ validated' = Validation(<<"AWS_ACCESS_KEY_ID", "AWS_SECRET_ACCESS_KEY">>, <<>>)
     ELSE IF Truthy(aws.AWS_PROFILE)
     THEN /\ vpc' = "returned"
          /\ validated' = Validation(<<"AWS_PROFILE">>, <<>>)
     ELSE /\ vpc' = "session"
          /\ UNCHANGED validated
  /\ UNCHANGED <<main, formatting, racing, vmodel, aws>>

\* Lines 455-464: the session is asked for credentials.
ValidateSession ==
  /\ vpc = "session"
  /\ \E answer \in SessionOutcomes :
       validated' =
         IF answer = "credentials"
         THEN Validation(<<"AWS_IAM_ROLE">>, <<>>)
         ELSE Validation(<<>>, <<"AWS_ACCESS_KEY_ID", "AWS_SECRET_ACCESS_KEY">>)
  /\ calls' = Append(calls, "Session.get_credentials")
  /\ vpc' = "returned"
  /\ UNCHANGED <<pc, model, stream, environ, listing, model_id, body, client, signal,
                 outcome, raised, returned, response_body, streaming, fetched,
                 formatting, racing, vmodel, aws>>

NextValidate ==
  \/ ValidateModel
  \/ ValidateEnvironment
  \/ ValidateSession

SpecValidate == InitValidate /\ [][NextValidate]_vars

\* -------------------------------------------- get_best_model_id side by side
\* Two calls of get_best_model_id for the same unqualified id have begun.
InitRace ==
  /\ Quiet
  /\ NoFormat
  /\ NoValidation
  /\ race_model \in RaceModels
  /\ resolvers = [r \in Resolvers |-> Resolver("called", NoListing, 0, EmptyMap, NoModel)]

\* Lines 479-485: the call builds its own client and lists the profiles; a
\* failure is caught at line 497 and {} is returned.
RaceList(r) ==
  /\ resolvers[r].at = "called"
  /\ \E answer \in RaceListings :
       resolvers' =
         [resolvers EXCEPT ![r] =
            IF answer.status = "ok"
            THEN Resolver("building", answer, 0, EmptyMap, NoModel)
            ELSE Resolver("lookup", answer, 0, EmptyMap, NoModel)]
  /\ UNCHANGED <<main, formatting, validating, race_model>>

\* One iteration of the loop of lines 487-494, or its end and the return of
\* profile_map; a summary without an id raises KeyError, caught at line 497.
RaceBuild(r) ==
  /\ resolvers[r].at = "building"
  /\ LET me == resolvers[r]
     IN resolvers' =
          [resolvers EXCEPT ![r] =
             IF me.n = Len(me.answer.ids)
             THEN [me EXCEPT !.at = "lookup"]
             ELSE IF me.answer.ids[me.n + 1] = NoId
             THEN [me EXCEPT !.at = "lookup", !.profile_map = EmptyMap]
             ELSE [me EXCEPT !.n = me.n + 1,
                             !.profile_map = ProfileMapUpTo(me.answer.ids, me.n + 1)]]
  /\ UNCHANGED <<main, formatting, validating, race_model>>

\* Lines 520-525: the id is looked up in the profiles this call got back.
RaceLookup(r) ==
  /\ resolvers[r].at = "lookup"
  /\ LET profiles ==
           ProfilesOf(resolvers[r].profile_map,
                      resolvers[CHOOSE o \in Resolvers : o # r].profile_map)
     IN resolvers' =
          [resolvers EXCEPT ![r].at = "returned",
                            ![r].result = BestFromProfiles(CleanModel(race_model), profiles)]
  /\ UNCHANGED <<main, formatting, validating, race_model>>

NextRace ==
  \/ \E r \in Resolvers : RaceList(r)
  \/ \E r \in Resolvers : RaceBuild(r)
  \/ \E r \in Resolvers : RaceLookup(r)

SpecRace == InitRace /\ [][NextRace]_vars

\* ------------------------------------------------------------------ claims
\* The notions the claims use, stated apart from the code's operators.

\* A chunk is terminal when its finish reason is set.
Terminal(c) == c.finish_reason # "None"

\* The requested model with the provider-gateway prefix, if it has one, removed.
StripGatewayPrefix(m) == IF Len(m) >= 1 /\ m[1] = "bedrock/" THEN Tail(m) ELSE m

\* A qualified id with its leading '<region>.' removed.
BaseOf(q) == SubSeq(q, 3, Len(q))

\* A base id: no region prefix and no gateway token.
IsBaseId(b) == ~StartsWithRegion(b) /\ "bedrock/" \notin Range(b)

Listed == Range(listing.ids)

InvokeNames == {"invoke_model", "invoke_model_with_response_stream"}

InvokeCount == Cardinality({i \in 1..Len(calls) : calls[i] \in InvokeNames})

\* The force-disable-streaming toggle is on.
ToggleOn == environ \in {"true", "TRUE"}

\* Consuming the event source failed (the generator ended, the source did not).
ConsumptionFailed == gen = "finished" /\ source # "exhausted"

\* C1: the chunks yielded hold no terminal chunk while the generator runs and
\* exactly one, the last, once it has finished; after a source exhausted
\* without failure that chunk has empty text and finish reason "stop".
C1_ExactlyOneTerminalChunk ==
  /\ \A i \in 1..Len(chunks) : Terminal(chunks[i]) => (i = Len(chunks) /\ gen = "finished")
  /\ gen = "finished" => (Len(chunks) >= 1 /\ Terminal(chunks[Len(chunks)]))
  /\ (gen = "finished" /\ source = "exhausted")
       => chunks[Len(chunks)] = [content |-> <<>>, finish_reason |-> "stop"]

C1_Witness ==
  /\ pc = "StreamCompleted"
  /\ source = "exhausted"
  /\ consumed = 2
  /\ Len(chunks) = 3

\* C2: when consuming the event source fails, completion() has raised nothing,
\* the last chunk yielded is the one error chunk (the failure's description,
\* finish reason "error"), no "stop" chunk is yielded, the generator has
\* ended, and the streaming invoke is still the request's only invoke.
C2_FailureBecomesOneErrorChunk ==
  ConsumptionFailed =>
    /\ pc = "StreamCompleted"
    /\ outcome = "generator"
    /\ raised = NoException
    /\ Len(chunks) >= 1
    /\ chunks[Len(chunks)] =
         [content |-> <<"Streaming error: ">> \o signal.text, finish_reason |-> "error"]
    /\ \A i \in 1..(Len(chunks) - 1) : chunks[i].finish_reason = "None"
    /\ InvokeCount = 1
    /\ calls[Len(calls)] = "invoke_model_with_response_stream"

C2_Witness ==
  /\ ConsumptionFailed
  /\ source = "failed"
  /\ consumed = 1
  /\ Len(chunks) = 2

\* C3: a requested model that is region-qualified once its gateway prefix is
\* stripped is resolved to exactly that remainder.
C3_QualifiedIdUnchanged ==
  (pc \notin {"Idle", "Resolving"} /\ StartsWithRegion(StripGatewayPrefix(model)))
    => model_id = StripGatewayPrefix(model)

C5_ListingFailureFallsBackToLiteral ==
  (pc = "Formatting" /\ listing.status \in ListingFailures)
    => (outcome # "raise" /\ model_id = StripGatewayPrefix(model))

Taxonomy ==
  {"BedrockAuthError", "BedrockRateLimitError", "BedrockModelError", "BedrockLLMError"}

\* C7: a failure at Invoking reaches the caller as a member of the taxonomy.
C7_InvokingFailuresAreClassified ==
  (pc = "Failed" /\ raised.at \in {"Invoking.client", "Invoking.call", "Invoking.read"})
    => raised.type \in Taxonomy

\* The class the claim gives a structured error code.
ClassOfCode(code) ==
  IF code = "ThrottlingException" THEN "BedrockRateLimitError"
  ELSE IF code = "ValidationException" THEN "BedrockModelError"
  ELSE "BedrockLLMError"

\* C8: a service error with an error code is classified by that code alone,
\* the generic class carrying the original message, in both invoke modes;
\* missing credentials at client construction give BedrockAuthError.
C8_ClassificationByCode ==
  /\ (pc = "Failed" /\ signal.kind = "ClientError")
       => /\ raised.type = ClassOfCode(signal.code)
          /\ raised.type = "BedrockLLMError"
               => raised.msg = <<"Bedrock API error: ">> \o signal.text
  /\ (pc = "Failed" /\ raised.at = "Invoking.client" /\ signal.kind = "NoCredentialsError")
       => raised.type = "BedrockAuthError"

C8_Witness ==
  /\ pc = "Failed"
  /\ signal.kind = "ClientError"
  /\ signal.code = "ValidationException"
  /\ calls[Len(calls)] = "invoke_model_with_response_stream"

\* C9: one request makes at most one invoke, and once it has failed (at the
\* call or while streaming) it makes no further call.
C9_NoInternalRetry ==
  /\ [](InvokeCount <= 1)
  /\ [][((pc = "Failed" \/ ConsumptionFailed) /\ pc' # "Idle") => calls' = calls]_vars

C9_Witness ==
  /\ pc = "Failed"
  /\ raised.at = "Invoking.call"
  /\ signal.code = "ThrottlingException"
  /\ InvokeCount = 1

NonEmptyReason(r) == r \notin {"None", ""}

\* C11: every response completion() returns and every terminal chunk the
\* generator yields has a non-empty finish reason, whatever stop_reason the
\* body carries (absent, null or the empty string included).
C11_FinishReasonNonEmpty ==
  /\ pc = "Completed" => NonEmptyReason(returned.finish_reason)
  /\ \A i \in 1..Len(chunks) : Terminal(chunks[i]) => chunks[i].finish_reason # ""

\* The family whose parser reads the body.
ParsedAs == FamilyOf(model)

\* The token count `field` of the body just parsed; a missing count is 0.
\* Anthropic keeps its counts under usage.
CountOrZero(field) ==
  IF field \notin response_body.keys THEN 0
  ELSE IF field \in {"input_tokens", "output_tokens"} /\ "usage" \notin response_body.keys
  THEN 0
  ELSE response_body[field]

PromptCount ==
  IF ParsedAs = "anthropic" THEN CountOrZero("input_tokens")
  ELSE IF ParsedAs = "llama" THEN CountOrZero("prompt_token_count")
  ELSE 0

CompletionCount ==
  IF ParsedAs = "anthropic" THEN CountOrZero("output_tokens")
  ELSE IF ParsedAs = "llama" THEN CountOrZero("generation_token_count")
  ELSE 0

\* C12: in every response completion() returns, for each family and body,
\* total_tokens is prompt_tokens plus completion_tokens, each being the
\* body's count or 0 when the body has none.
C12_TotalIsSumOfCounts ==
  pc = "Completed" =>
    /\ returned.total_tokens = returned.prompt_tokens + returned.completion_tokens
    /\ returned.prompt_tokens = PromptCount
    /\ returned.completion_tokens = CompletionCount

\* An Anthropic body with one count missing was parsed, and the total is the
\* other count.
C12_Witness ==
  /\ pc = "Completed"
  /\ ParsedAs = "anthropic"
  /\ "input_tokens" \in response_body.keys
  /\ "output_tokens" \notin response_body.keys
  /\ returned.total_tokens = 3

\* A body was decoded and handed to the parser of a Titan model; its results,
\* if it has any, is a list of records.
TitanBodyParsed ==
  /\ ParsedAs = "titan"
  /\ response_body.json = "object"
  /\ response_body.results # "[str]"

AnthropicListParsed ==
  /\ pc = "Completed"
  /\ ParsedAs = "anthropic"
  /\ "content" \in response_body.keys
  /\ response_body.content \in {"[{text}]", "[{}]"}

\* C14: for an Anthropic body whose content is a non-empty list, the response
\* holds the body's values: the first element's text, stop_reason ("stop"
\* when absent), usage.input_tokens and usage.output_tokens (0 when absent).
C14_AnthropicSurfacesBodyValues ==
  AnthropicListParsed =>
    /\ response_body.content = "[{text}]" => returned.content = response_body.content_text
    /\ returned.finish_reason =
         (IF "stop_reason" \in response_body.keys THEN response_body.stop_reason ELSE "stop")
    /\ returned.prompt_tokens = CountOrZero("input_tokens")
    /\ returned.completion_tokens = CountOrZero("output_tokens")

\* {content:[{text:"hi"}], stop_reason:"end_turn", usage:{3, 2}} was parsed
\* into "hi", "end_turn" and usage 3/2/5.
C14_Witness ==
  /\ AnthropicListParsed
  /\ response_body.content_text = <<"hi">>
  /\ response_body.stop_reason = "end_turn"
  /\ response_body.output_tokens = 2
  /\ returned.content = <<"hi">>
  /\ returned.finish_reason = "end_turn"
  /\ returned.prompt_tokens = 3
  /\ returned.completion_tokens = 2
  /\ returned.total_tokens = 5

\* C15: each formatter, given an empty message list, returns a minimal body:
\* Anthropic an empty messages list and no system field, Titan an inputText
\* that is the "Assistant: " cue alone, Llama a prompt that is the open
\* assistant marker alone.
C15_EmptyListBuildsMinimalBody ==
  (fpc = "returned" /\ messages = <<>>) =>
    /\ built.kind = family
    /\ family = "anthropic" =>
         /\ built.messages = <<>>
         /\ "messages" \in built.keys
         /\ "system" \notin built.keys
    /\ family = "titan" => built.inputText = <<"Assistant: ">>
    /\ family = "llama" =>
         built.prompt = <<"<|start_header_id|>", "assistant", "<|end_header_id|>", "\n">>

\* The Anthropic formatter has returned for an empty message list.
C15_Witness ==
  /\ fpc = "returned"
  /\ messages = <<>>
  /\ family = "anthropic"
  /\ built.keys = {"messages", "max_tokens", "temperature", "anthropic_version"}

\* The messages that are not system messages, in order.
NonSystem(msgs) == SelectSeq(msgs, LAMBDA m : m.role # "system")

\* C16: the Anthropic formatter writes the system field exactly when some
\* system message has non-empty content, the field holds the content of
\* every system message, and messages holds every non-system message, in
\* order, and no system message.
C16_SystemMessagesMerged ==
  (fpc = "returned" /\ family = "anthropic") =>
    /\ ("system" \in built.keys) <=>
         (\E i \in 1..Len(messages) :
            messages[i].role = "system" /\ messages[i].content # <<>>)
    /\ \A i \in 1..Len(messages) :
         (messages[i].role = "system" /\ messages[i].content # <<>>) =>
           Contains(built.system, messages[i].content)
    /\ built.messages = NonSystem(messages)

\* C17: once a listing call has succeeded in the process, no later resolve
\* makes another listing call.
C17_NoListingAfterSuccess ==
  [][(fetched /\ Len(calls') > Len(calls)) =>
       calls'[Len(calls')] # "list_inference_profiles"]_vars

\* The chunks yielded that are not terminal.
NonTerminalCount == Cardinality({i \in 1..Len(chunks) : ~Terminal(chunks[i])})

\* C18 as stated: after a source consumed without failure, there are as many
\* non-terminal chunks as events received.
C18_OneChunkPerEvent ==
  (pc = "StreamCompleted" /\ source = "exhausted") => NonTerminalCount = consumed

\* The event carries a decoded payload with a non-empty text in the shape
\* the family of id recognizes.
CarriesText(id, e) == e.chunk /\ e.data.json # "invalid" /\ ChunkText(id, e.data) # <<>>

\* C18, amended: each event taken from the source yields one non-terminal
\* chunk holding its text when it carries a non-empty recognized text, and no
\* chunk otherwise (an undecodable event ends the stream with the error chunk).
C18_ChunkExactlyForText ==
  [][consumed' = consumed + 1 =>
       IF CarriesText(model_id, event')
       THEN chunks' = Append(chunks, [content |-> ChunkText(model_id, event'.data),
                                      finish_reason |-> "None"])
       ELSE IF event'.chunk /\ event'.data.json = "invalid"
       THEN /\ Len(chunks') = Len(chunks) + 1
            /\ chunks'[Len(chunks')].finish_reason = "error"
       ELSE chunks' = chunks]_vars

\* A block-start marker was taken from the source and no chunk was yielded,
\* while the generator goes on.
C18_Witness ==
  /\ pc = "Streaming"
  /\ consumed = 1
  /\ event.chunk
  /\ event.data.type = "content_block_start"
  /\ FamilyOf(model_id) = "anthropic"
  /\ chunks = <<>>

\* The body just parsed lacks its family's text-bearing field, or has it
\* mis-shaped.
TextMissing ==
  \/ ParsedAs = "anthropic" /\ ("content" \notin response_body.keys
                                  \/ response_body.content \in {"[]", "[str]"})
  \/ ParsedAs = "titan" /\ "results" \notin response_body.keys
  \/ ParsedAs = "llama" /\ "generation" \notin response_body.keys

\* C19: for a recognized family, a decoded body never fails the call; a
\* missing or mis-shaped text-bearing field gives empty text and missing
\* usage fields give zero usage.
C19_MalformedBodyDegrades ==
  (ParsedAs \in Families /\ response_body.json = "object" /\ TextMissing) =>
    /\ pc = "Completed"
    /\ returned.content = <<>>
    /\ returned.prompt_tokens = PromptCount
    /\ returned.completion_tokens = CompletionCount

\* C20: once resolved, the deployment id has the family of the requested id
\* (the same recognized family, or both unrecognized).
C20_ResolutionKeepsFamily ==
  pc \notin {"Idle", "Resolving"} => FamilyOf(model_id) = FamilyOf(model)

\* C22: the model of the response a synchronous completion() returns is the
\* deployment id that was resolved and invoked, not the requested string.
C22_ResponseModelIsResolvedId ==
  pc = "Completed" => returned.model = model_id

\* The texts of the non-terminal chunks among cs[1..n], concatenated in order.
RECURSIVE DeltaConcatUpTo(_, _)
DeltaConcatUpTo(cs, n) ==
  IF n = 0 THEN <<>>
  ELSE DeltaConcatUpTo(cs, n - 1) \o (IF Terminal(cs[n]) THEN <<>> ELSE cs[n].content)

DeltaConcat(cs) == DeltaConcatUpTo(cs, Len(cs))

\* The text the family of id recognizes in the event, empty if there is none.
RecognizedText(id, e) ==
  IF e.chunk /\ e.data.json # "invalid" THEN ChunkText(id, e.data) ELSE <<>>

\* C23: the texts of the non-terminal chunks, concatenated as yielded, are the
\* recognized texts of the events consumed so far, concatenated in transport
\* order: nothing is yielded before the first event, each event consumed
\* appends its recognized text and nothing else, and the end of the stream
\* (final chunk or error chunk) appends no text.
C23_ChunksConcatenateEventTexts ==
  /\ []((gen = "active" /\ consumed = 0) => DeltaConcat(chunks) = <<>>)
  /\ [][consumed' = consumed + 1 =>
          DeltaConcat(chunks') = DeltaConcat(chunks) \o RecognizedText(model_id, event')]_vars
  /\ [][(consumed' = consumed /\ gen # "none" /\ pc' # "Idle") =>
          DeltaConcat(chunks') = DeltaConcat(chunks)]_vars

\* A stream failed part-way: a text chunk, then an event without text, then
\* the error chunk.
C23_Witness ==
  /\ pc = "StreamCompleted"
  /\ consumed >= 2
  /\ Len(chunks) = 2
  /\ ~Terminal(chunks[1])
  /\ chunks[1].content # <<>>
  /\ chunks[2].finish_reason = "error"

\* What one resolver running alone returns for the listing answer it got.
AloneResult(answer) ==
  LET clean == RemoveAll(race_model, "bedrock/")
      whole == answer.status = "ok" /\ \A i \in 1..Len(answer.ids) : answer.ids[i] # NoId
      hits == IF whole
              THEN {i \in 1..Len(answer.ids) :
                      HasDot(answer.ids[i]) /\ AfterFirstDot(answer.ids[i]) = clean}
              ELSE {}
  IN IF hits = {} THEN clean
     ELSE answer.ids[CHOOSE i \in hits : \A j \in hits : j <= i]

PlainModel(m) ==
  /\ ~(Len(m) >= 1 /\ m[1] = "bedrock/")
  /\ ~(Len(m) >= 2 /\ m[1] \in Regions /\ m[2] = ".")

\* C24: validate_environment makes no completion call and answers
\* consistently: keys_in_environment is true exactly when missing_keys is
\* empty, and a model that is neither gateway-prefixed nor region-qualified
\* gets false and a non-empty missing_keys whatever the credentials.
C24_ValidationIsConsistent ==
  /\ vpc # "none" => (pc = "Idle" /\ InvokeCount = 0 /\ "boto3.client" \notin Range(calls))
  /\ vpc = "returned" =>
       /\ validated.keys_in_environment <=> (validated.missing_keys = <<>>)
       /\ PlainModel(vmodel) =>
            (~validated.keys_in_environment /\ validated.missing_keys # <<>>)

\* A plain model was refused although the environment holds both keys.
C24_Witness ==
  /\ vpc = "returned"
  /\ PlainModel(vmodel)
  /\ aws.AWS_ACCESS_KEY_ID = "v"
  /\ aws.AWS_SECRET_ACCESS_KEY = "v"
  /\ validated.missing_keys = <<"BEDROCK_MODEL_REQUIRED">>

====
